---- MODULE Spec2Model ----
(***************************************************************************)
(* Model of the COREP reporting assistant's deterministic core:            *)
(*   - retrieval.py : SimpleRetriever (keyword scoring, embedding cache,   *)
(*                    semantic retrieval with keyword fallback)            *)
(*   - validation.py: _field_map, _get, the rules V001..V006, validate     *)
(*   - engine.py    : COREPAssistant.analyze (its retry loop)              *)
(*                                                                         *)
(* Strings are sequences of one-character strings, so that split, lower,   *)
(* substring search and startswith are computed as Python computes them.   *)
(* Monetary values are integers counted in quarters of a unit, so the 0.5  *)
(* tolerance of the rules is 2 quarters.                                   *)
(***************************************************************************)
EXTENDS Integers, Sequences, FiniteSets, TLC

VARIABLES
    chunks,       \* SimpleRetriever.chunks: the corpus, a sequence of chunks
    client,       \* SimpleRetriever._client: TRUE iff a provider is configured
    embeddings,   \* SimpleRetriever._embeddings: None or a sequence of rows
    embed_ids,    \* SimpleRetriever._embed_ids
    embed_cache,  \* the file _EMBED_CACHE: Absent, Corrupt or a matrix
    ids_cache,    \* the file _IDS_CACHE: Absent, Corrupt or a list of ids
    last,         \* the last call made and what it returned
    fields,       \* the populated-field list handed to validate
    results,      \* what validate returned for it
    callers,      \* the threads inside ensure_embeddings on the shared retriever
    analysis      \* COREPAssistant.analyze: its loop, its calls and how it ended

vars == <<chunks, client, embeddings, embed_ids, embed_cache, ids_cache,
          last, fields, results, callers, analysis>>

----------------------------------------------------------------------------
(* Bounds of the model *)

MaxChunks == 2      \* longest corpus
MaxTopK == 2        \* keyword retrieval takes top_k from 1..MaxTopK
MaxFields == 3      \* longest populated-field list

----------------------------------------------------------------------------
(* Generic helpers *)

Min(a, b) == IF a < b THEN a ELSE b

Abs(x) == IF x < 0 THEN -x ELSE x

----------------------------------------------------------------------------
(* Python string operations on sequences of characters *)

LowerChar(c) ==
    CASE c = "O" -> "o"
      [] c = "R" -> "r"
      [] c = "T" -> "t"
      [] c = "A" -> "a"
      [] c = "X" -> "x"
      [] OTHER -> c

\* str.lower()
Lower(s) == [i \in 1..Len(s) |-> LowerChar(s[i])]

\* str.split() with no argument: maximal runs of non-whitespace characters
RECURSIVE SplitAcc(_, _, _)
SplitAcc(s, cur, acc) ==
    IF s = <<>>
    THEN IF cur = <<>> THEN acc ELSE Append(acc, cur)
    ELSE IF Head(s) = " "
         THEN SplitAcc(Tail(s), <<>>, IF cur = <<>> THEN acc ELSE Append(acc, cur))
         ELSE SplitAcc(Tail(s), Append(cur, Head(s)), acc)

Split(s) == SplitAcc(s, <<>>, <<>>)

\* " ".join(words)
RECURSIVE Join(_)
Join(words) ==
    IF words = <<>> THEN <<>>
    ELSE IF Len(words) = 1 THEN words[1]
    ELSE words[1] \o <<" ">> \o Join(Tail(words))

\* w in s  (substring test)
Contains(s, w) ==
    \E i \in 0..(Len(s) - Len(w)) : SubSeq(s, i + 1, i + Len(w)) = w

\* w.startswith("r0")
StartsWithR0(w) == Len(w) >= 2 /\ w[1] = "r" /\ w[2] = "0"

\* sum of f over the elements of a sequence, in order
RECURSIVE SumSeq(_)
SumSeq(s) == IF s = <<>> THEN 0 ELSE Head(s) + SumSeq(Tail(s))

\* [x for x in s if keep(x)]
RECURSIVE FilterLong(_)
FilterLong(ws) ==
    IF ws = <<>> THEN <<>>
    ELSE IF Len(Head(ws)) > 2
         THEN <<Lower(Head(ws))>> \o FilterLong(Tail(ws))
         ELSE FilterLong(Tail(ws))

----------------------------------------------------------------------------
(* The corpus *)

Chunk(id, text, kws) == [chunk_id |-> id, text |-> text, keywords |-> kws]

\* The chunks corpora are drawn from:
\*   c1: text "Own r01", no keywords
\*   c2: text "own",     keywords ["R01", "tax"]
\*   c3: text "tax",     keywords ["own"]
ChunkPool ==
    << Chunk("c1", <<"O","w","n"," ","r","0","1">>, <<>>),
       Chunk("c2", <<"o","w","n">>, << <<"R","0","1">>, <<"t","a","x">> >>),
       Chunk("c3", <<"t","a","x">>, << <<"o","w","n">> >>) >>

PoolIds == {ChunkPool[i].chunk_id : i \in 1..Len(ChunkPool)}

\* chunk_id is unique in a corpus, so the state holds a corpus as the sequence
\* of its chunk ids and a chunk's fields are read from the pool
ChunkOf(id) == ChunkPool[CHOOSE i \in 1..Len(ChunkPool) : ChunkPool[i].chunk_id = id]

\* Corpora: the non-empty sequences of distinct pool chunks, up to MaxChunks long
Corpora ==
    { s \in UNION { [1..n -> PoolIds] : n \in 1..Min(MaxChunks, Len(ChunkPool)) } :
        \A i, j \in DOMAIN s : i # j => s[i] # s[j] }

\* The queries calls are made with, by name
QueryText(q) ==
    CASE q = "own r01" -> <<"o","w","n"," ","r","0","1">>
      [] q = "TAX ow" -> <<"T","A","X"," ","o","w">>
      [] q = "" -> <<>>
      [] q = "own  Own" -> <<"o","w","n"," "," ","O","w","n">>
      [] q = "r0 r02" -> <<"r","0"," ","r","0","2">>

Queries == {"own r01", "TAX ow", "", "own  Own", "r0 r02"}

\* [c.chunk_id for c in self.chunks]
Ids(cs) == [i \in 1..Len(cs) |-> ChunkOf(cs[i]).chunk_id]

----------------------------------------------------------------------------
(* Keyword retrieval *)

\* query_words = [w.lower() for w in query.split() if len(w) > 2]
QueryWords(query) == FilterLong(Split(query))

\* combined = text_lower + " " + kw_lower
Combined(chunk) == Lower(chunk.text) \o <<" ">> \o Lower(Join(chunk.keywords))

\* A score that gives the bonus to every "r0" word, matching or not
ComputeKeywordScoreBonusAlways(chunk, query) ==
    LET ws == QueryWords(query)
        combined == Combined(chunk)
    IN  SumSeq([i \in 1..Len(ws) |-> IF Contains(combined, ws[i]) THEN 1 ELSE 0])
        + SumSeq([i \in 1..Len(ws) |-> IF StartsWithR0(ws[i]) THEN 3 ELSE 0])

\* score of one chunk: one per matching query word, plus 3 per matching "r0" word
ComputeKeywordScore(chunk, query) ==
    LET ws == QueryWords(query)
        combined == Combined(chunk)
    IN  SumSeq([i \in 1..Len(ws) |-> IF Contains(combined, ws[i]) THEN 1 ELSE 0])
        + SumSeq([i \in 1..Len(ws) |->
                    IF StartsWithR0(ws[i]) /\ Contains(combined, ws[i]) THEN 3 ELSE 0])

\* The scores of the pool's chunks for the model's queries, computed once
KeywordScoreTable ==
    [id \in PoolIds, q \in Queries |-> ComputeKeywordScore(ChunkOf(id), QueryText(q))]

KeywordScore(id, query) == KeywordScoreTable[id, query]

\* A sort that puts an element before the earlier elements of equal key
InsertDescUnstable(sorted, e) ==
    LET p == Cardinality({j \in 1..Len(sorted) : sorted[j][1] > e[1]})
    IN  SubSeq(sorted, 1, p) \o <<e>> \o SubSeq(sorted, p + 1, Len(sorted))

\* list.sort(key=..., reverse=True) is stable: an element goes after every
\* element already placed whose key is greater or equal
InsertDesc(sorted, e) ==
    LET p == Cardinality({j \in 1..Len(sorted) : sorted[j][1] >= e[1]})
    IN  SubSeq(sorted, 1, p) \o <<e>> \o SubSeq(sorted, p + 1, Len(sorted))

RECURSIVE SortDescFrom(_, _)
SortDescFrom(acc, s) ==
    IF s = <<>> THEN acc ELSE SortDescFrom(InsertDesc(acc, Head(s)), Tail(s))

SortDesc(s) == SortDescFrom(<<>>, s)

Passage(id, score) == [chunk_id |-> ChunkOf(id).chunk_id, score |-> score]

\* SimpleRetriever.retrieve_keyword
RetrieveKeyword(cs, query, top_k) ==
    LET scored == [i \in 1..Len(cs) |-> <<KeywordScore(cs[i], query), i>>]
        sorted == SortDesc(scored)
        top == SubSeq(sorted, 1, Min(top_k, Len(sorted)))
    IN  [i \in 1..Len(top) |-> Passage(cs[top[i][2]], top[i][1])]

----------------------------------------------------------------------------
(* The Embedding Provider and the vector arithmetic *)

\* The query put to the retriever where the embedding cache takes part
EngineQueries == {"own r01"}

\* resp.embeddings[0].values of a successful embed_content call: a vector
\* that depends on the text alone (two coordinates, each 0 or 1)
ComputeEmbedValues(text) ==
    << IF Contains(Lower(text), <<"w">>) THEN 1 ELSE 0,
       IF Contains(Lower(text), <<"a">>) THEN 1 ELSE 0 >>

\* The vectors of the texts the model embeds, computed once
ChunkEmbedTable == [id \in PoolIds |-> ComputeEmbedValues(ChunkOf(id).text)]

QueryEmbedTable == [q \in Queries |-> ComputeEmbedValues(QueryText(q))]

\* embed_content(contents=c.text) and embed_content(contents=query)
EmbedChunk(id) == ChunkEmbedTable[id]
EmbedQuery(q) == QueryEmbedTable[q]

Dot(a, b) == a[1] * b[1] + a[2] * b[2]

\* _cosine_similarity of vector a with one row b, as 4 * cos * |cos|: an
\* integer that orders and identifies the cosines of 0/1 vectors exactly
\* (a zero vector has norm 1e-10 and cosine 0)
CosineRow(a, b) ==
    LET d == Dot(a, b)
        n == Dot(a, a) * Dot(b, b)
    IN  IF n = 0 THEN 0
        ELSE IF d < 0 THEN -((4 * d * d) \div n) ELSE (4 * d * d) \div n

\* _cosine_similarity(a, b): one score per row of the matrix b
CosineSimilarity(a, rows) == [i \in 1..Len(rows) |-> CosineRow(a, rows[i])]

\* np.argsort(scores): the indices in ascending order of score, equal scores
\* in index order
InsertAsc(sorted, e) ==
    LET p == Cardinality({j \in 1..Len(sorted) : sorted[j][1] <= e[1]})
    IN  SubSeq(sorted, 1, p) \o <<e>> \o SubSeq(sorted, p + 1, Len(sorted))

RECURSIVE ArgsortFrom(_, _)
ArgsortFrom(acc, s) ==
    IF s = <<>> THEN acc ELSE ArgsortFrom(InsertAsc(acc, Head(s)), Tail(s))

Argsort(scores) ==
    LET keyed == [i \in 1..Len(scores) |-> <<scores[i], i>>]
        sorted == ArgsortFrom(<<>>, keyed)
    IN  [i \in 1..Len(sorted) |-> sorted[i][2]]

\* s[::-1]
Reverse(s) == [i \in 1..Len(s) |-> s[Len(s) + 1 - i]]

----------------------------------------------------------------------------
(* The retriever's memory and the two cache files *)

NoneArray == [some |-> FALSE, rows |-> <<>>]
Array(rows) == [some |-> TRUE, rows |-> rows]

AbsentFile == [state |-> "absent", data |-> <<>>]
CorruptFile == [state |-> "corrupt", data |-> <<>>]
File(data) == [state |-> "ok", data |-> data]

\* How a pair of cache files stands against a corpus
CacheState(st, cs) ==
    IF st.embed_cache.state = "absent" \/ st.ids_cache.state = "absent" THEN "absent"
    ELSE IF st.embed_cache.state = "corrupt" \/ st.ids_cache.state = "corrupt"
         THEN "unreadable"
    ELSE IF st.ids_cache.data = Ids(cs) THEN "valid" ELSE "mismatch"

\* What can happen to the two writes of a build
WriteOutcomes == {"ok", "save_fails", "save_partial", "ids_open_fails", "ids_partial"}

\* A load that reports a mismatch but leaves what it read in memory
LoadedBothKeep(s2, cs) == [st |-> s2, ret |-> s2.embed_ids = Ids(cs)]

\* _load_cached_embeddings once both files have been read: the ids are
\* compared with the corpus and a mismatch clears the memory
LoadedBoth(s2, cs) ==
    IF s2.embed_ids = Ids(cs)
    THEN [st |-> s2, ret |-> TRUE]
    ELSE [st |-> [s2 EXCEPT !.embeddings = NoneArray, !.embed_ids = <<>>],
          ret |-> FALSE]

\* _load_cached_embeddings once np.load has returned: json.load raises on a
\* corrupt ids file, and the matrix just assigned stays in self._embeddings
LoadedMatrix(s1, cs) ==
    IF s1.ids_cache.state = "corrupt"
    THEN [st |-> s1, ret |-> FALSE]
    ELSE LoadedBoth([s1 EXCEPT !.embed_ids = s1.ids_cache.data], cs)

\* SimpleRetriever._load_cached_embeddings
LoadCachedEmbeddings(st, cs) ==
    IF st.embed_cache.state # "absent" /\ st.ids_cache.state # "absent"
    THEN IF st.embed_cache.state = "corrupt"
         THEN [st |-> st, ret |-> FALSE]                  \* np.load raises
         ELSE LoadedMatrix([st EXCEPT !.embeddings = Array(st.embed_cache.data)], cs)
    ELSE [st |-> st, ret |-> FALSE]

\* _build_embeddings once every chunk is embedded: the vectors and ids are
\* assigned to self, then np.save and json.dump run; wr is how the writes end.
\* s1 is the retriever with the new vectors and ids in memory.
PersistEmbeddings(s1, wr) ==
    CASE wr = "save_fails" ->            \* np.save raises, the file is untouched
            [st |-> s1, ret |-> FALSE, outcome |-> wr]
      [] wr = "save_partial" ->          \* np.save raises, the file is cut short
            [st |-> [s1 EXCEPT !.embed_cache = CorruptFile],
             ret |-> FALSE, outcome |-> wr]
      [] wr = "ids_open_fails" ->        \* open(_IDS_CACHE, "w") raises
            [st |-> [s1 EXCEPT !.embed_cache = File(s1.embeddings.rows)],
             ret |-> FALSE, outcome |-> wr]
      [] wr = "ids_partial" ->           \* json.dump raises, the file is cut short
            [st |-> [s1 EXCEPT !.embed_cache = File(s1.embeddings.rows),
                               !.ids_cache = CorruptFile],
             ret |-> FALSE, outcome |-> wr]
      [] OTHER ->
            [st |-> [s1 EXCEPT !.embed_cache = File(s1.embeddings.rows),
                               !.ids_cache = File(s1.embed_ids)],
             ret |-> TRUE, outcome |-> "ok"]

\* A build that keeps the vectors it got before the provider failed
BuildEmbeddingsKeepPartial(st, cs, cl, prov, wr) ==
    IF ~cl THEN [st |-> st, ret |-> FALSE, outcome |-> "no_client"]
    ELSE IF prov # 0
    THEN [st |-> [st EXCEPT !.embeddings = Array([i \in 1..(prov - 1) |-> EmbedChunk(cs[i])]),
                            !.embed_ids = SubSeq(Ids(cs), 1, prov - 1)],
          ret |-> FALSE, outcome |-> "provider_failed"]
    ELSE PersistEmbeddings(
            [st EXCEPT !.embeddings = Array([i \in 1..Len(cs) |-> EmbedChunk(cs[i])]),
                       !.embed_ids = Ids(cs)],
            wr)

\* SimpleRetriever._build_embeddings.  prov is the first chunk the provider
\* fails on (0: it answers for every chunk); wr is what happens to the writes.
BuildEmbeddings(st, cs, cl, prov, wr) ==
    IF ~cl THEN [st |-> st, ret |-> FALSE, outcome |-> "no_client"]
    ELSE IF prov # 0 THEN [st |-> st, ret |-> FALSE, outcome |-> "provider_failed"]
    ELSE PersistEmbeddings(
            [st EXCEPT !.embeddings = Array([i \in 1..Len(cs) |-> EmbedChunk(cs[i])]),
                       !.embed_ids = Ids(cs)],
            wr)

\* ensure_embeddings once the load has returned False: the build runs on
\* whatever the load left in memory
EnsureBuilt(b) ==
    [st |-> b.st, ret |-> b.ret, step |-> "built", outcome |-> b.outcome]

\* ensure_embeddings once _load_cached_embeddings has returned l
EnsureLoaded(l, cs, cl, prov, wr) ==
    IF l.ret
    THEN [st |-> l.st, ret |-> TRUE, step |-> "loaded", outcome |-> "na"]
    ELSE EnsureBuilt(BuildEmbeddings(l.st, cs, cl, prov, wr))

\* An ensure_embeddings that builds first and reads the cache only when the
\* build has failed
EnsureEmbeddingsBuildFirst(st, cs, cl, prov, wr) ==
    IF st.embeddings.some
    THEN [st |-> st, ret |-> TRUE, step |-> "resident", outcome |-> "na"]
    ELSE LET b == BuildEmbeddings(st, cs, cl, prov, wr)
             l == LoadCachedEmbeddings(b.st, cs)
         IN  IF b.ret THEN EnsureBuilt(b)
             ELSE [st |-> l.st, ret |-> l.ret, step |-> "loaded", outcome |-> "na"]

\* SimpleRetriever.ensure_embeddings
EnsureEmbeddings(st, cs, cl, prov, wr) ==
    IF st.embeddings.some
    THEN [st |-> st, ret |-> TRUE, step |-> "resident", outcome |-> "na"]
    ELSE EnsureLoaded(LoadCachedEmbeddings(st, cs), cs, cl, prov, wr)

----------------------------------------------------------------------------
(* Semantic retrieval and the public retrieve *)

\* What a retrieve call hands back: raised is TRUE when an exception reaches
\* the caller (and then there is no list)
Returned(st, passages, route, fallback, step, outcome) ==
    [st |-> st, raised |-> FALSE, passages |-> passages, route |-> route,
     fallback |-> fallback, step |-> step, outcome |-> outcome]

Raised(st, route, step, outcome) ==
    [st |-> st, raised |-> TRUE, passages |-> <<>>, route |-> route,
     fallback |-> "none", step |-> step, outcome |-> outcome]

\* The scoring half of retrieve_semantic: scores is one cosine per cached row,
\* order is np.argsort(scores)[::-1], top its first top_k indices.  A row index
\* past the corpus makes self.chunks[idx] raise IndexError.
SemanticTop(order, top_k) == SubSeq(order, 1, Min(top_k, Len(order)))

SemanticPassages(cs, scores, top) ==
    [i \in 1..Len(top) |-> Passage(cs[top[i]], scores[top[i]])]

SemanticRanked(e, cs, scores, top) ==
    IF \E i \in 1..Len(top) : top[i] > Len(cs)
    THEN Raised(e.st, "semantic", e.step, e.outcome)
    ELSE Returned(e.st, SemanticPassages(cs, scores, top),
                  "semantic", "none", e.step, e.outcome)

SemanticScored(e, cs, scores, top_k) ==
    SemanticRanked(e, cs, scores, SemanticTop(Reverse(Argsort(scores)), top_k))

\* A retrieve_semantic that answers with an empty list when it cannot complete
AfterEnsureNoFallback(e, cs, cl, query, top_k, qok) ==
    IF ~e.ret
    THEN Returned(e.st, <<>>, "semantic", "ensure", e.step, e.outcome)
    ELSE IF ~cl \/ ~qok
    THEN Returned(e.st, <<>>, "semantic", "query", e.step, e.outcome)
    ELSE SemanticScored(e, cs, CosineSimilarity(EmbedQuery(query), e.st.embeddings.rows),
                        top_k)

\* retrieve_semantic once ensure_embeddings has returned e.  qok: the provider
\* embeds the query; with no client, self._client.models raises AttributeError
\* inside the try.
AfterEnsure(e, cs, cl, query, top_k, qok) ==
    IF ~e.ret
    THEN Returned(e.st, RetrieveKeyword(cs, query, top_k),
                  "semantic", "ensure", e.step, e.outcome)
    ELSE IF ~cl \/ ~qok
    THEN Returned(e.st, RetrieveKeyword(cs, query, top_k),
                  "semantic", "query", e.step, e.outcome)
    ELSE SemanticScored(e, cs, CosineSimilarity(EmbedQuery(query), e.st.embeddings.rows),
                        top_k)

\* SimpleRetriever.retrieve_semantic
RetrieveSemantic(st, cs, cl, query, top_k, prov, wr, qok) ==
    AfterEnsure(EnsureEmbeddings(st, cs, cl, prov, wr), cs, cl, query, top_k, qok)

\* A retrieve whose auto strategy looks at the resident vectors, not the client
RetrieveRouteByCache(st, cs, cl, query, top_k, method, prov, wr, qok) ==
    IF method = "keyword" \/ (method = "auto" /\ ~st.embeddings.some)
    THEN Returned(st, RetrieveKeyword(cs, query, top_k), "keyword", "none", "na", "na")
    ELSE RetrieveSemantic(st, cs, cl, query, top_k, prov, wr, qok)

\* SimpleRetriever.retrieve
Retrieve(st, cs, cl, query, top_k, method, prov, wr, qok) ==
    IF method = "keyword"
    THEN Returned(st, RetrieveKeyword(cs, query, top_k), "keyword", "none", "na", "na")
    ELSE IF method = "semantic"
    THEN RetrieveSemantic(st, cs, cl, query, top_k, prov, wr, qok)
    ELSE IF cl
    THEN RetrieveSemantic(st, cs, cl, query, top_k, prov, wr, qok)
    ELSE Returned(st, RetrieveKeyword(cs, query, top_k), "keyword", "none", "na", "na")

----------------------------------------------------------------------------
(* The state machine of one retriever process after another over the same  *)
(* cache directory                                                         *)

\* The retriever's memory and the cache files as one record
Cur == [embeddings |-> embeddings, embed_ids |-> embed_ids,
        embed_cache |-> embed_cache, ids_cache |-> ids_cache]

SetCur(st) ==
    /\ embeddings' = st.embeddings
    /\ embed_ids' = st.embed_ids
    /\ embed_cache' = st.embed_cache
    /\ ids_cache' = st.ids_cache

\* The record of a call: its arguments, what it returned and the branches it
\* took (route, fallback, step, outcome)
Call(op, query, top_k, method, ret, raised, passages, route, fallback, step, outcome) ==
    [op |-> op, query |-> query, top_k |-> top_k, method |-> method,
     ret |-> ret, raised |-> raised, passages |-> passages,
     route |-> route, fallback |-> fallback, step |-> step, outcome |-> outcome,
     before |-> "na", was_resident |-> FALSE]

\* The record of a call of one of the cache operations, which also keeps how
\* the cache files and the memory stood when it was made
CacheCall(op, ret, step, outcome) ==
    [Call(op, "", 0, "na", ret, FALSE, <<>>, "na", "na", step, outcome)
        EXCEPT !.before = CacheState(Cur, chunks), !.was_resident = embeddings.some]

NoFields == <<>>
NoResults == <<>>

\* The sessions that share the one retriever of get_retriever, each a thread
Callers == {"a", "b"}

\* A thread that is not inside ensure_embeddings.  n counts the vectors it has
\* appended to its local list, ret is what its last call returned.
IdleCaller == [pc |-> "idle", n |-> 0, ret |-> "none"]

\* AnalysisResult(fields=..., warnings=...)
AnalysisResult(fs, warnings) == [fields |-> fs, warnings |-> warnings]

\* analyze before it is called: no attempt made, no call, nothing returned
NoAnalysis ==
    [pc |-> "idle", attempt |-> 0, calls |-> 0, responses |-> <<>>,
     max_output_tokens |-> 0, last_error |-> FALSE, outcome |-> "none",
     result |-> AnalysisResult(<<>>, <<>>)]

\* SimpleRetriever.__init__ in a process whose cache directory is empty
Init ==
    /\ chunks \in Corpora
    /\ client \in BOOLEAN
    /\ embeddings = NoneArray
    /\ embed_ids = <<>>
    /\ embed_cache = AbsentFile
    /\ ids_cache = AbsentFile
    /\ last = [op |-> "init", query |-> "", top_k |-> 0, method |-> "na",
               ret |-> TRUE, raised |-> FALSE, passages |-> <<>>,
               route |-> "na", fallback |-> "na", step |-> "na", outcome |-> "na",
               before |-> "na", was_resident |-> FALSE]
    /\ fields = NoFields
    /\ results = NoResults
    /\ callers = [t \in Callers |-> IdleCaller]
    /\ analysis = NoAnalysis

\* SimpleRetriever.__init__ in a new process: the corpus is read again (it may
\* have changed), the memory starts empty, the cache files are as they were left
Construct(cs, cl) ==
    /\ chunks' = cs
    /\ client' = cl
    /\ embeddings' = NoneArray
    /\ embed_ids' = <<>>
    /\ last' = Call("construct", "", 0, "na", TRUE, FALSE, <<>>,
                    "na", "na", "na", "na")
    /\ UNCHANGED <<embed_cache, ids_cache, fields, results, callers, analysis>>

\* a call of _load_cached_embeddings
Load ==
    \E r \in {LoadCachedEmbeddings(Cur, chunks)} :
        /\ SetCur(r.st)
        /\ last' = CacheCall("load", r.ret, "na", "na")
        /\ UNCHANGED <<chunks, client, fields, results, callers, analysis>>

\* a call of _build_embeddings
Build(prov, wr) ==
    \E r \in {BuildEmbeddings(Cur, chunks, client, prov, wr)} :
        /\ SetCur(r.st)
        /\ last' = CacheCall("build", r.ret, "built", r.outcome)
        /\ UNCHANGED <<chunks, client, fields, results, callers, analysis>>

\* a call of ensure_embeddings
Ensure(prov, wr) ==
    \E r \in {EnsureEmbeddings(Cur, chunks, client, prov, wr)} :
        /\ SetCur(r.st)
        /\ last' = CacheCall("ensure", r.ret, r.step, r.outcome)
        /\ UNCHANGED <<chunks, client, fields, results, callers, analysis>>

\* a call of retrieve
RetrieveCall(query, top_k, method, prov, wr, qok) ==
    \E r \in {Retrieve(Cur, chunks, client, query, top_k, method, prov, wr, qok)} :
        /\ SetCur(r.st)
        /\ last' = Call("retrieve", query, top_k, method, ~r.raised, r.raised,
                        r.passages, r.route, r.fallback, r.step, r.outcome)
        /\ UNCHANGED <<chunks, client, fields, results, callers, analysis>>

\* What the environment can do to a build, as <<prov, wr>>: the provider fails
\* on chunk prov, or it answers for every chunk (prov = 0) and the writes end
\* as wr.  With no client the build reads neither.
BuildEnvs ==
    IF client
    THEN {<<p, "ok">> : p \in 1..Len(chunks)} \cup {<<0, w>> : w \in WriteOutcomes}
    ELSE {<<0, "ok">>}

\* What the environment can do to a semantic retrieval, as <<prov, wr, qok>>.
\* The environment is drawn only where the call reads it: a call that does not
\* reach the build meets <<0, "ok">>, and the provider's answer to the query
\* (qok) is drawn only when there is a client and the build does not fail.
RetrieveEnvs ==
    LET builds == IF ~embeddings.some /\ ~LoadCachedEmbeddings(Cur, chunks).ret
                  THEN BuildEnvs ELSE {<<0, "ok">>}
    IN  {<<e[1], e[2], TRUE>> : e \in builds}
        \cup (IF client THEN {<<0, "ok", FALSE>>} ELSE {})

\* The application's use of a retriever: it is constructed, and retrieve is
\* called on it
Next ==
    \/ \E cs \in Corpora, cl \in BOOLEAN : Construct(cs, cl)
    \/ \E query \in EngineQueries, top_k \in {1, MaxChunks} :
            RetrieveCall(query, top_k, "keyword", 0, "ok", TRUE)
    \/ \E query \in EngineQueries, top_k \in {1, MaxChunks}, method \in {"auto", "semantic"},
          env \in RetrieveEnvs :
            RetrieveCall(query, top_k, method, env[1], env[2], env[3])

Spec == Init /\ [][Next]_vars

\* The cache operations called one by one
NextCache ==
    \/ \E cs \in Corpora, cl \in BOOLEAN : Construct(cs, cl)
    \/ Load
    \/ \E env \in BuildEnvs : Build(env[1], env[2])
    \/ \E env \in BuildEnvs : Ensure(env[1], env[2])

SpecCache == Init /\ [][NextCache]_vars

\* ensure_embeddings as the only cache operation called from outside
NextEnsure ==
    \/ \E cs \in Corpora, cl \in BOOLEAN : Construct(cs, cl)
    \/ \E env \in BuildEnvs : Ensure(env[1], env[2])

SpecEnsure == Init /\ [][NextEnsure]_vars

\* Keyword retrieval alone, over every query of the model
KeywordCall(query, top_k) ==
    /\ last' = Call("retrieve_keyword", query, top_k, "keyword", TRUE, FALSE,
                    RetrieveKeyword(chunks, query, top_k), "keyword", "none", "na", "na")
    /\ UNCHANGED <<chunks, client, embeddings, embed_ids, embed_cache, ids_cache,
                   fields, results, callers, analysis>>

NextKeyword == \E query \in Queries, top_k \in 1..MaxTopK : KeywordCall(query, top_k)

SpecKeyword == Init /\ [][NextKeyword]_vars

----------------------------------------------------------------------------
(* Validation: _field_map, _get, the rules and validate *)

\* A populated field.  field_id is held as its parts between "_" separators:
\* "r0010_c0010" is <<"r0010", "c0010">> and "r0030" is <<"r0030">>.  value is
\* in quarters of a unit.
PopulatedField(id, v) == [field_id |-> id, value |-> v]

\* The populated fields the lists of the model are made of: every row a rule
\* reads, the derived rows at values on both sides of the tolerance and of
\* zero, a row in a second column and a field id without column
FieldPool ==
    { PopulatedField(<<"r0010", "c0010">>, 1),     \* 0.25
      PopulatedField(<<"r0010", "c0010">>, 2),     \* 0.5
      PopulatedField(<<"r0010", "c0010">>, -20),   \* -5
      PopulatedField(<<"r0010", "c0010">>, 400),   \* 100
      PopulatedField(<<"r0010", "c0020">>, 80),
      PopulatedField(<<"r0020", "c0010">>, 400),
      PopulatedField(<<"r0020", "c0010">>, 2),
      PopulatedField(<<"r0500", "c0010">>, 2),
      PopulatedField(<<"r0030", "c0010">>, 320),   \* 80
      PopulatedField(<<"r0030", "c0010">>, -20),
      PopulatedField(<<"r0030", "c0010">>, 0),
      PopulatedField(<<"r0030", "c0010">>, 1),
      PopulatedField(<<"r0030">>, 400),
      PopulatedField(<<"r0300", "c0010">>, 80),    \* 20
      PopulatedField(<<"r0040", "c0010">>, 320),
      PopulatedField(<<"r0040", "c0010">>, 2),
      PopulatedField(<<"r0100", "c0010">>, 2),
      PopulatedField(<<"r0110", "c0010">>, 4),
      PopulatedField(<<"r0130", "c0010">>, 8),
      PopulatedField(<<"r0200", "c0010">>, 16),
      PopulatedField(<<"r0210", "c0010">>, 32),
      PopulatedField(<<"r0220", "c0010">>, 64),
      PopulatedField(<<"r0050", "c0010">>, 1),
      PopulatedField(<<"r0060", "c0010">>, 4),
      PopulatedField(<<"r0070", "c0010">>, 16) }

\* f.field_id.split("_")[0]
RowPart(field_id) == <<field_id[1]>>

\* m[key] = value
Store(m, key, value) == (key :> value) @@ m

\* the body of _field_map's loop for one field
PutField(m, f) == Store(Store(m, f.field_id, f.value), RowPart(f.field_id), f.value)

\* _field_map
RECURSIVE FieldMapFrom(_, _)
FieldMapFrom(m, fs) ==
    IF fs = <<>> THEN m ELSE FieldMapFrom(PutField(m, Head(fs)), Tail(fs))

FieldMap(fs) == FieldMapFrom(<<>>, fs)

\* A lookup that prefers the default column over the bare row entry
GetColumnFirst(m, key) ==
    IF <<key, "c0010">> \in DOMAIN m THEN m[<<key, "c0010">>]
    ELSE IF <<key>> \in DOMAIN m THEN m[<<key>>]
    ELSE 0

\* _get(m, key): m.get(key, m.get(f"{key}_c0010", 0.0))
Get(m, key) ==
    IF <<key>> \in DOMAIN m THEN m[<<key>>]
    ELSE IF <<key, "c0010">> \in DOMAIN m THEN m[<<key, "c0010">>]
    ELSE 0

\* the tolerance 0.5 of the equality rules, in quarters
Tolerance == 2

ValidationResult(rule_id, passed, expected, actual) ==
    [rule_id |-> rule_id, passed |-> passed, expected |-> expected, actual |-> actual]

\* A V001 whose tolerance lets a difference of exactly 0.5 pass
V001OwnFundsInclusive(m) ==
    ValidationResult("V001",
                     Abs(Get(m, "r0010") - (Get(m, "r0020") + Get(m, "r0500"))) <= Tolerance,
                     Get(m, "r0020") + Get(m, "r0500"), Get(m, "r0010"))

\* _v001_own_funds
V001OwnFunds(m) ==
    ValidationResult("V001",
                     Abs(Get(m, "r0010") - (Get(m, "r0020") + Get(m, "r0500"))) < Tolerance,
                     Get(m, "r0020") + Get(m, "r0500"), Get(m, "r0010"))

\* _v002_tier1
V002Tier1(m) ==
    ValidationResult("V002",
                     Abs(Get(m, "r0020") - (Get(m, "r0030") + Get(m, "r0300"))) < Tolerance,
                     Get(m, "r0030") + Get(m, "r0300"), Get(m, "r0020"))

\* expected of _v003_cet1
V003Expected(m) ==
    Get(m, "r0040") + Get(m, "r0100") + Get(m, "r0110") + Get(m, "r0130")
    - Get(m, "r0200") - Get(m, "r0210") - Get(m, "r0220")

\* _v003_cet1
V003Cet1(m) ==
    ValidationResult("V003", Abs(Get(m, "r0030") - V003Expected(m)) < Tolerance,
                     V003Expected(m), Get(m, "r0030"))

\* _v004_instruments_breakdown
V004InstrumentsBreakdown(m) ==
    ValidationResult("V004",
                     Abs(Get(m, "r0040")
                         - (Get(m, "r0050") + Get(m, "r0060") + Get(m, "r0070"))) < Tolerance,
                     Get(m, "r0050") + Get(m, "r0060") + Get(m, "r0070"), Get(m, "r0040"))

\* _v005_own_funds_positive
V005OwnFundsPositive(m) ==
    ValidationResult("V005", Get(m, "r0010") >= 0, 0, Get(m, "r0010"))

\* A V006 that asks for a strictly positive CET1
V006Cet1StrictlyPositive(m) ==
    ValidationResult("V006", Get(m, "r0030") > 0, 0, Get(m, "r0030"))

\* _v006_cet1_positive
V006Cet1Positive(m) ==
    ValidationResult("V006", Get(m, "r0030") >= 0, 0, Get(m, "r0030"))

\* A rule list that has lost its last rule
AllRulesShort == <<"_v001", "_v002", "_v003", "_v004", "_v005">>

\* _ALL_RULES
AllRules == <<"_v001", "_v002", "_v003", "_v004", "_v005", "_v006">>

\* rule(m) for a rule of _ALL_RULES
ApplyRule(rule, m) ==
    CASE rule = "_v001" -> V001OwnFunds(m)
      [] rule = "_v002" -> V002Tier1(m)
      [] rule = "_v003" -> V003Cet1(m)
      [] rule = "_v004" -> V004InstrumentsBreakdown(m)
      [] rule = "_v005" -> V005OwnFundsPositive(m)
      [] rule = "_v006" -> V006Cet1Positive(m)

\* the rules applied to an already built field map
ValidateMap(m) == [i \in 1..Len(AllRules) |-> ApplyRule(AllRules[i], m)]

\* validate
Validate(fs) == ValidateMap(FieldMap(fs))

\* The retriever is idle while the validator is exercised
InitValidate ==
    /\ Init
    /\ chunks = <<"c1">>
    /\ client = FALSE

\* validate is called on the list it was last called on, or on that list with
\* one more populated field at its end
ValidateCall(fs) ==
    /\ fields' = fs
    /\ results' = Validate(fs)
    /\ UNCHANGED <<chunks, client, embeddings, embed_ids, embed_cache, ids_cache, last,
                   callers, analysis>>

NextValidate ==
    \E fs \in {fields} \cup
              (IF Len(fields) < MaxFields
               THEN {Append(fields, f) : f \in FieldPool} ELSE {}) :
        ValidateCall(fs)

SpecValidate == InitValidate /\ [][NextValidate]_vars

----------------------------------------------------------------------------
(* Claims about the retrieval engine and the vector cache *)

IsRetrieve == last.op = "retrieve"

\* C2: the auto strategy is a fixed routing per retriever instance.  With no
\* provider configured an auto call returns exactly what the keyword strategy
\* returns for the same query and top_k; with a provider configured every auto
\* call goes through retrieve_semantic; and no call on an instance changes
\* whether it has a provider (only constructing a new retriever sets it).
C2_AutoRouting ==
    /\ [](IsRetrieve /\ last.method = "auto" =>
            IF client
            THEN last.route = "semantic"
            ELSE /\ last.route = "keyword"
                 /\ ~last.raised
                 /\ last.passages = RetrieveKeyword(chunks, last.query, last.top_k))
    /\ [][last'.op # "construct" => client' = client]_vars

\* C2 witness: an auto call on a retriever without provider, made while a
\* valid cache lies on disk (so the semantic path had vectors to load)
C2_Witness ==
    /\ IsRetrieve /\ last.method = "auto" /\ ~client
    /\ CacheState(Cur, chunks) = "valid"
    /\ Len(last.passages) = 2

\* C3: whenever a semantic retrieval cannot be completed, because
\* ensure_embeddings returned False or because embedding the query failed
\* (a semantic call with no provider always ends so), the call returns
\* exactly the list retrieve_keyword returns for the same arguments and
\* raises nothing.
C3_FallbackIsKeyword ==
    IsRetrieve /\ last.route = "semantic" =>
        /\ (~client => last.fallback # "none")
        /\ (last.step = "built" /\ last.outcome # "ok" => last.fallback = "ensure")
        /\ (last.fallback # "none" =>
              /\ ~last.raised
              /\ last.passages = RetrieveKeyword(chunks, last.query, last.top_k))

\* C3 witness: the provider fails on the query although the vectors are
\* resident, and the caller gets the keyword ranking of a two-chunk corpus
C3_Witness ==
    /\ IsRetrieve /\ last.method = "semantic" /\ client
    /\ last.fallback = "query"
    /\ embeddings.some
    /\ Len(last.passages) = 2

\* C4: no retrieve call ever raises to its caller, whatever the provider did
\* and whatever the cache files hold.
C4_NeverRaises == IsRetrieve => ~last.raised

\* C5: load returns True exactly when both files are present and readable and
\* the persisted ids equal the corpus ids in order; in every other case it
\* returns False and leaves no vectors resident in memory (when none were
\* resident before it).
C5_LoadContract ==
    last.op = "load" =>
        /\ last.ret = (last.before = "valid")
        /\ (~last.ret /\ ~last.was_resident => ~embeddings.some)

\* The vectors and ids in memory and on disk cover the whole corpus: one row
\* per chunk, row i the vector of chunk i, and the ids are the corpus ids
Rebuilt ==
    /\ embeddings.some
    /\ Len(embeddings.rows) = Len(chunks)
    /\ \A i \in 1..Len(chunks) : embeddings.rows[i] = EmbedChunk(chunks[i])
    /\ embed_ids = Ids(chunks)
    /\ embed_cache = File(embeddings.rows)
    /\ ids_cache = File(Ids(chunks))

\* A retriever whose memory was empty met a readable cache written for another
\* corpus (chunks added, removed or reordered since)
MetChangedCorpus == ~last.was_resident /\ last.before = "mismatch"

C10_Idempotent ==
    [][(/\ last.op = "retrieve" /\ last'.op = "retrieve"
        /\ last'.query = last.query /\ last'.top_k = last.top_k
        /\ last'.method = last.method
        /\ last.fallback # "query" /\ last'.fallback # "query"
        /\ last.outcome # "provider_failed" /\ last'.outcome # "provider_failed"
        /\ UNCHANGED <<chunks, embed_cache, ids_cache, embeddings, embed_ids>>)
       => (last'.passages = last.passages /\ last'.raised = last.raised)]_vars

----------------------------------------------------------------------------
(* Claims about keyword retrieval *)

\* position of a chunk in the corpus
PositionOf(id) == CHOOSE p \in 1..Len(chunks) : chunks[p] = id

\* C1: retrieve_keyword returns at most top_k passages, in non-increasing
\* order of score, and two returned passages of equal score appear in their
\* corpus order; the call returns (it does not raise).
C1_KeywordRanking ==
    last.op = "retrieve_keyword" =>
        /\ ~last.raised
        /\ Len(last.passages) <= last.top_k
        /\ \A i, j \in 1..Len(last.passages) :
              i < j =>
                /\ last.passages[i].score >= last.passages[j].score
                /\ (last.passages[i].score = last.passages[j].score =>
                      PositionOf(last.passages[i].chunk_id)
                        < PositionOf(last.passages[j].chunk_id))

\* C1 witness: a call that returned two passages of the same positive score
C1_Witness ==
    /\ last.op = "retrieve_keyword"
    /\ Len(last.passages) = 2
    /\ last.passages[1].score = last.passages[2].score
    /\ last.passages[1].score > 0

----------------------------------------------------------------------------
(* Claims about validation *)

Validated == results # NoResults

\* The value of a row in a field list, said without the field map: the value
\* of the last field of the list whose id starts with that row, 0 if none
RowFields(fs, row) == {i \in 1..Len(fs) : fs[i].field_id[1] = row}

RowValue(fs, row) ==
    IF RowFields(fs, row) = {} THEN 0
    ELSE fs[CHOOSE i \in RowFields(fs, row) : \A j \in RowFields(fs, row) : j <= i].value

\* C7: validate returns exactly 6 results, with rule ids V001..V006 in that
\* order, for every field list (empty, with rows missing, with rows repeated)
\* and whether the rules pass or fail.
C7_OneResultPerRule ==
    Validated =>
        [i \in 1..Len(results) |-> results[i].rule_id]
            = <<"V001", "V002", "V003", "V004", "V005", "V006">>

\* C7 witness: a list that names one row twice and omits most others, with
\* rules passing and rules failing
C7_Witness ==
    /\ Validated
    /\ Len(fields) = 2
    /\ fields[1].field_id[1] = fields[2].field_id[1]
    /\ \E i, j \in 1..Len(results) : results[i].passed /\ ~results[j].passed

\* What an equality rule must report for a field list
EqualityRule(r, fs, actual, expected) ==
    /\ r.actual = actual
    /\ r.expected = expected
    /\ r.passed = (Abs(actual - expected) < 2)     \* under 0.5

ExampleFields ==
    { PopulatedField(<<"r0020", "c0010">>, 400),   \* r0020 = 100
      PopulatedField(<<"r0300", "c0010">>, 80),    \* r0300 = 20
      PopulatedField(<<"r0030", "c0010">>, 320) }  \* r0030 = 80

IsExample ==
    Len(fields) = 3 /\ {fields[i] : i \in 1..Len(fields)} = ExampleFields

\* C8: each equality rule V001..V004 reports actual = the derived row's value
\* and expected = its component formula, unpopulated rows counting 0, and
\* passes exactly when |actual - expected| is under 0.5; with only r0020 = 100,
\* r0300 = 20 and r0030 = 80 populated, V002 passes and V001 fails with
\* actual = 0 and expected = 100.
C8_EqualityRules ==
    Validated =>
        /\ EqualityRule(results[1], fields, RowValue(fields, "r0010"),
                        RowValue(fields, "r0020") + RowValue(fields, "r0500"))
        /\ EqualityRule(results[2], fields, RowValue(fields, "r0020"),
                        RowValue(fields, "r0030") + RowValue(fields, "r0300"))
        /\ EqualityRule(results[3], fields, RowValue(fields, "r0030"),
                        RowValue(fields, "r0040") + RowValue(fields, "r0100")
                        + RowValue(fields, "r0110") + RowValue(fields, "r0130")
                        - RowValue(fields, "r0200") - RowValue(fields, "r0210")
                        - RowValue(fields, "r0220"))
        /\ EqualityRule(results[4], fields, RowValue(fields, "r0040"),
                        RowValue(fields, "r0050") + RowValue(fields, "r0060")
                        + RowValue(fields, "r0070"))
        /\ (IsExample =>
              /\ results[2].passed
              /\ ~results[1].passed
              /\ results[1].actual = 0
              /\ results[1].expected = 400)

\* C8 witness: the example list has been validated
C8_Witness == Validated /\ IsExample /\ results[2].passed /\ ~results[1].passed

\* C9: V005 passes exactly when r0010 (0 if not populated) is >= 0 and V006
\* exactly when r0030 (0 if not populated) is >= 0, with no tolerance; each
\* reports actual = the row's value and expected = 0.
C9_SignRules ==
    Validated =>
        /\ results[5].passed = (RowValue(fields, "r0010") >= 0)
        /\ results[5].actual = RowValue(fields, "r0010")
        /\ results[5].expected = 0
        /\ results[6].passed = (RowValue(fields, "r0030") >= 0)
        /\ results[6].actual = RowValue(fields, "r0030")
        /\ results[6].expected = 0

\* C9 witness: r0030 = -5 alone, and V006 fails with actual = -5 while V005
\* passes
C9_Witness ==
    /\ Validated
    /\ fields = <<PopulatedField(<<"r0030", "c0010">>, -20)>>
    /\ ~results[6].passed /\ results[6].actual = -20
    /\ results[5].passed

----------------------------------------------------------------------------
(* Claims about the pairing of the two cache files *)

\* C11: the matrix file and the ids file are written as one unit: a load that
\* returns True has read a matrix that was written for the ids it read, one
\* row per id and row i the vector of the chunk with id i.
C11_AtomicPersist ==
    last.op = "load" /\ last.ret =>
        /\ Len(embeddings.rows) = Len(embed_ids)
        /\ \A i \in 1..Len(embed_ids) : embeddings.rows[i] = EmbedChunk(embed_ids[i])

----------------------------------------------------------------------------
(* ensure_embeddings called by several threads on the shared retriever.      *)
(* The code takes no lock, so a thread may be preempted between any two      *)
(* statements; a step here is one statement group of the code.               *)

\* return ret from ensure_embeddings
CallerReturns(t, ret) ==
    callers' = [callers EXCEPT ![t] = [pc |-> "idle", n |-> 0, ret |-> ret]]

CallerGoes(t, pc) ==
    callers' = [callers EXCEPT ![t].pc = pc]

\* ensure_embeddings is entered: if self._embeddings is not None: return True
EnsureEnter(t) ==
    /\ callers[t].pc = "idle"
    /\ IF embeddings.some THEN CallerReturns(t, "true") ELSE CallerGoes(t, "load")
    /\ UNCHANGED <<chunks, client, embeddings, embed_ids, embed_cache, ids_cache,
                   last, fields, results, analysis>>

\* if self._load_cached_embeddings(): return True; otherwise _build_embeddings
\* is entered, which returns False at once when there is no client
CallerLoad(t) ==
    /\ callers[t].pc = "load"
    /\ \E r \in {LoadCachedEmbeddings(Cur, chunks)} :
          /\ SetCur(r.st)
          /\ IF r.ret THEN CallerReturns(t, "true")
             ELSE IF ~client THEN CallerReturns(t, "false")
             ELSE CallerGoes(t, "embed")
    /\ UNCHANGED <<chunks, client, last, fields, results, analysis>>

\* one embed_content call of the build loop: the vector is appended to the
\* thread's own list, or the provider raises and the build returns False
CallerEmbed(t, ok) ==
    /\ callers[t].pc = "embed"
    /\ IF ~ok THEN CallerReturns(t, "false")
       ELSE callers' = [callers EXCEPT
                ![t].n = @ + 1,
                ![t].pc = IF callers[t].n + 1 = Len(chunks) THEN "assign" ELSE "embed"]
    /\ UNCHANGED <<chunks, client, embeddings, embed_ids, embed_cache, ids_cache,
                   last, fields, results, analysis>>

\* self._embeddings = np.array(vectors); self._embed_ids = ids
CallerAssign(t) ==
    /\ callers[t].pc = "assign"
    /\ embeddings' = Array([i \in 1..Len(chunks) |-> EmbedChunk(chunks[i])])
    /\ embed_ids' = Ids(chunks)
    /\ CallerGoes(t, "save")
    /\ UNCHANGED <<chunks, client, embed_cache, ids_cache, last, fields, results, analysis>>

\* np.save(str(_EMBED_CACHE), self._embeddings)
CallerSave(t, wr) ==
    /\ callers[t].pc = "save"
    /\ CASE wr = "save_fails" ->
                /\ CallerReturns(t, "false")
                /\ UNCHANGED embed_cache
         [] wr = "save_partial" ->
                /\ CallerReturns(t, "false")
                /\ embed_cache' = CorruptFile
         [] OTHER ->
                /\ CallerGoes(t, "dump")
                /\ embed_cache' = File(embeddings.rows)
    /\ UNCHANGED <<chunks, client, embeddings, embed_ids, ids_cache,
                   last, fields, results, analysis>>

\* with open(_IDS_CACHE, "w") as f: json.dump(ids, f); return True
CallerDump(t, wr) ==
    /\ callers[t].pc = "dump"
    /\ CASE wr = "ids_open_fails" ->
                /\ CallerReturns(t, "false")
                /\ UNCHANGED ids_cache
         [] wr = "ids_partial" ->
                /\ CallerReturns(t, "false")
                /\ ids_cache' = CorruptFile
         [] OTHER ->
                /\ CallerReturns(t, "true")
                /\ ids_cache' = File(Ids(chunks))
    /\ UNCHANGED <<chunks, client, embeddings, embed_ids, embed_cache,
                   last, fields, results, analysis>>

NextCallers ==
    \E t \in Callers :
        \/ EnsureEnter(t)
        \/ CallerLoad(t)
        \/ \E ok \in BOOLEAN : CallerEmbed(t, ok)
        \/ CallerAssign(t)
        \/ \E wr \in {"ok", "save_fails", "save_partial"} : CallerSave(t, wr)
        \/ \E wr \in {"ok", "ids_open_fails", "ids_partial"} : CallerDump(t, wr)

SpecCallers == Init /\ [][NextCallers]_vars

\* a thread is inside the build: between its first provider call and the end
\* of the ids write
Building(t) == callers[t].pc \in {"embed", "assign", "save", "dump"}

\* C12: at most one caller of ensure is building and persisting the cache at
\* any time.
C12_SingleBuilder == Cardinality({t \in Callers : Building(t)}) <= 1

----------------------------------------------------------------------------
(* Claims about the keyword score *)

\* The words of each query as the claim counts them: whitespace-separated,
\* longer than 2 characters, lowercased, repeated words kept
ExpectedWords(q) ==
    CASE q = "own r01" -> << <<"o","w","n">>, <<"r","0","1">> >>
      [] q = "TAX ow" -> << <<"t","a","x">> >>
      [] q = "" -> <<>>
      [] q = "own  Own" -> << <<"o","w","n">>, <<"o","w","n">> >>
      [] q = "r0 r02" -> << <<"r","0","2">> >>

\* lowercased(text + " " + keywords joined by spaces) of each chunk
ExpectedCombined(id) ==
    CASE id = "c1" -> <<"o","w","n"," ","r","0","1"," ">>
      [] id = "c2" -> <<"o","w","n"," ","r","0","1"," ","t","a","x">>
      [] id = "c3" -> <<"t","a","x"," ","o","w","n">>

ExpectedScore(id, q) ==
    LET ws == ExpectedWords(q)
        text == ExpectedCombined(id)
        hits == {k \in 1..Len(ws) : Contains(text, ws[k])}
    IN  Cardinality(hits) + 3 * Cardinality({k \in hits : StartsWithR0(ws[k])})

\* C13: the score of every returned chunk is the number of query words
\* (whitespace-separated, lowercased, longer than 2, with multiplicity) that
\* occur in the chunk's lowercased text and keywords, plus 3 for each of them
\* that starts with "r0"; it is never negative.
C13_KeywordScore ==
    last.op = "retrieve_keyword" =>
        \A i \in 1..Len(last.passages) :
            /\ last.passages[i].score = ExpectedScore(last.passages[i].chunk_id, last.query)
            /\ last.passages[i].score \in Nat

\* C13 witness: a query with a matching "r0" word returned one chunk at 1 + 4
\* and one chunk that matches only the plain word at 1
C13_Witness ==
    /\ last.op = "retrieve_keyword" /\ last.query = "own r01"
    /\ Len(last.passages) = 2
    /\ last.passages[1].score = 5
    /\ last.passages[2].score = 1

----------------------------------------------------------------------------
(* Claims about the order of ensure_embeddings *)

\* C14: ensure works in a fixed order.  With vectors resident it returns True
\* and touches neither the memory nor the files nor the provider; the build
\* (and so every provider call for chunk vectors) runs only when no vectors
\* were resident and the load has returned False; and once an ensure has
\* returned True every later ensure on the instance returns True from the
\* resident vectors.
C14_EnsureOrder ==
    /\ [](last.op = "ensure" /\ last.ret => embeddings.some)
    /\ [][last'.op = "ensure" /\ embeddings.some =>
            /\ last'.ret /\ last'.step = "resident"
            /\ UNCHANGED <<embeddings, embed_ids, embed_cache, ids_cache>>]_vars
    /\ [][last'.op = "ensure" /\ last'.step = "built" =>
            /\ ~embeddings.some
            /\ ~LoadCachedEmbeddings(Cur, chunks).ret]_vars
    /\ [][last'.op = "ensure" /\ ~embeddings.some /\ LoadCachedEmbeddings(Cur, chunks).ret =>
            last'.ret /\ last'.step = "loaded"]_vars
    /\ [][last.op = "ensure" /\ last.ret /\ last'.op = "ensure" =>
            last'.ret /\ last'.step = "resident"]_vars

\* C14 witness: an ensure answered from the resident vectors, on an instance
\* whose earlier ensure built and persisted them for a two-chunk corpus
C14_Witness ==
    /\ last.op = "ensure" /\ last.ret /\ last.step = "resident" /\ last.was_resident
    /\ Len(chunks) = 2
    /\ Rebuilt

----------------------------------------------------------------------------
(* Claims about a build the provider fails *)

\* the build ended because there is no provider or the provider failed
BuildAborted(l) == l.outcome \in {"provider_failed", "no_client"}

----------------------------------------------------------------------------
(* Claims about the field map and its lookup *)

\* the value of the last field of a list that satisfies a test, 0 if none does
LastValue(fs, idx) ==
    IF idx = {} THEN 0
    ELSE fs[CHOOSE i \in idx : \A j \in idx : j <= i].value

\* the rows looked up in the map of a list: every row the list names, the
\* rows the sign rules read, and a row no list names
LookupRows(fs) == {fs[i].field_id[1] : i \in 1..Len(fs)} \cup {"r0010", "r0030", "r0999"}

\* a field map m agrees with the list fs it was built from, key by key, and
\* get agrees with the list on m and on m cut down to its full ids
KeysAndLookupAgree(m, full, fs) ==
    /\ DOMAIN m = {fs[i].field_id : i \in 1..Len(fs)}
                    \cup {<<fs[i].field_id[1]>> : i \in 1..Len(fs)}
    /\ \A i \in 1..Len(fs) :
          /\ Len(fs[i].field_id) = 2 =>
              m[fs[i].field_id]
                = LastValue(fs, {j \in 1..Len(fs) : fs[j].field_id = fs[i].field_id})
          /\ m[<<fs[i].field_id[1]>>] = RowValue(fs, fs[i].field_id[1])
    /\ \A row \in LookupRows(fs) :
          /\ Get(m, row) = RowValue(fs, row)
          /\ Get(full, row)
                = LastValue(fs, {j \in 1..Len(fs) : fs[j].field_id = <<row, "c0010">>})

MapAndLookupAgree(m, fs) ==
    KeysAndLookupAgree(m, [k \in {k \in DOMAIN m : Len(k) = 2} |-> m[k]], fs)

\* C16: in the field map of a list every full field id of the form row_col
\* maps to the value of the last field with that id and every bare row id to
\* the value of the last field of that row (an id without a column is its own
\* row id), and the map has no other keys; get(map, row) is the last-processed
\* value of the row, 0 when no field names the row; and on a map that holds
\* only full ids get falls back to map[row + "_c0010"], then to 0.
C16_FieldMapLookup == MapAndLookupAgree(FieldMap(fields), fields)

\* C16 witness: r0010_c0010 = 100 followed by r0010_c0020 = 20 has been
\* validated, and the lookup of r0010 gives 20 while the full id keeps 100
C16_Witness ==
    /\ Validated
    /\ fields = << PopulatedField(<<"r0010", "c0010">>, 400),
                   PopulatedField(<<"r0010", "c0020">>, 80) >>
    /\ Get(FieldMap(fields), "r0010") = 80
    /\ FieldMap(fields)[<<"r0010", "c0010">>] = 400
    /\ results[1].actual = 80

----------------------------------------------------------------------------
(* Claims about the vectors resident in memory *)

\* C17: whenever vectors are resident, the ids in memory are the corpus ids
\* and the matrix has one row per chunk, row i the vector of chunk i.
C17_ResidentMatchesCorpus ==
    embeddings.some =>
        /\ embed_ids = Ids(chunks)
        /\ Len(embeddings.rows) = Len(chunks)
        /\ \A i \in 1..Min(Len(chunks), Len(embeddings.rows)) :
              embeddings.rows[i] = EmbedChunk(chunks[i])

----------------------------------------------------------------------------
(* engine.py: COREPAssistant.analyze, and the validation of what it returns *)

\* for attempt in range(2)
Attempts == 2

\* The field lists a model response can carry
AnalysisFieldLists ==
    { <<>>,
      << PopulatedField(<<"r0010", "c0010">>, 400) >>,
      << PopulatedField(<<"r0030", "c0010">>, -20) >>,
      << PopulatedField(<<"r0020", "c0010">>, 400),
         PopulatedField(<<"r0300", "c0010">>, 80),
         PopulatedField(<<"r0030", "c0010">>, 320) >> }

\* What generate_content can answer:
\*   parsed       response.parsed is an AnalysisResult
\*   json_ok      parsed is None, the text starts with "{" and validates
\*   json_cut     parsed is None, the text starts with "{" and is cut short
\*   json_invalid parsed is None, the text is JSON that is no AnalysisResult
\*   empty        parsed is None, the text is None or ""
\*   non_json     parsed is None, the text does not start with "{"
Response(kind, fs) == [kind |-> kind, result |-> AnalysisResult(fs, <<>>)]

Responses ==
    {Response(k, fs) : k \in {"parsed", "json_ok"}, fs \in AnalysisFieldLists}
    \cup {Response(k, <<>>) : k \in {"json_cut", "json_invalid", "empty", "non_json"}}

\* text.strip().startswith("{")
LooksLikeJson(resp) == resp.kind \in {"json_ok", "json_cut", "json_invalid"}

\* AnalysisResult.model_validate_json(text) raises
ValidateJsonRaises(resp) == resp.kind \in {"json_cut", "json_invalid"}

\* return <result>
AnalyzeReturns(a, result) ==
    [a EXCEPT !.pc = "done", !.outcome = "returned", !.result = result]

\* the end of one pass of the loop body without return, continue or raise:
\* the next attempt, or past the loop the last-resort result
AnalyzeNextAttempt(a) ==
    IF a.attempt + 1 < Attempts
    THEN [a EXCEPT !.attempt = @ + 1]
    ELSE AnalyzeReturns(a, AnalysisResult(<<>>, <<"unparseable response">>))

\* the except branch of the text parse: a retry with a larger token limit on
\* the first attempt, the exception raised again on the second
AnalyzeParseFailed(a) ==
    IF a.attempt = 0
    THEN [a EXCEPT !.last_error = TRUE, !.max_output_tokens = 32768, !.attempt = 1]
    ELSE [a EXCEPT !.last_error = TRUE, !.pc = "done", !.outcome = "raised"]

\* one pass of the loop body of analyze, a being analyze after the call and
\* resp the response it got
AnalyzeBody(a, resp) ==
    IF resp.kind = "parsed" THEN AnalyzeReturns(a, resp.result)
    ELSE IF LooksLikeJson(resp)
    THEN IF ValidateJsonRaises(resp) THEN AnalyzeParseFailed(a)
         ELSE AnalyzeReturns(a, resp.result)
    ELSE AnalyzeNextAttempt(a)

\* analyze is called: the config is built and the loop entered
AnalyzeStart ==
    /\ analysis.pc \in {"idle", "done"}
    /\ analysis' = [NoAnalysis EXCEPT !.pc = "call", !.max_output_tokens = 16384]
    /\ UNCHANGED <<chunks, client, embeddings, embed_ids, embed_cache, ids_cache,
                   last, fields, results, callers>>

\* one generate_content call and the loop body on its response
AnalyzeAttempt(resp) ==
    /\ analysis.pc = "call"
    /\ analysis' = AnalyzeBody([analysis EXCEPT !.calls = @ + 1,
                                                !.responses = Append(@, resp)],
                               resp)
    /\ UNCHANGED <<chunks, client, embeddings, embed_ids, embed_cache, ids_cache,
                   last, fields, results, callers>>

\* val_results = validate(result.fields) on what analyze returned
ValidateAnalysis ==
    /\ analysis.pc = "done" /\ analysis.outcome = "returned"
    /\ fields' = analysis.result.fields
    /\ results' = Validate(analysis.result.fields)
    /\ UNCHANGED <<chunks, client, embeddings, embed_ids, embed_cache, ids_cache,
                   last, callers, analysis>>

NextAnalyze ==
    \/ AnalyzeStart
    \/ \E resp \in Responses : AnalyzeAttempt(resp)
    \/ ValidateAnalysis

SpecAnalyze == InitValidate /\ [][NextAnalyze]_vars

\* the responses that carry an AnalysisResult
Parseable(resp) == resp.kind \in {"parsed", "json_ok"}

\* C18: analyze makes at most 2 model calls and always ends by returning: the
\* result of the first parsed or parseable response if there is one, else,
\* after 2 unparseable responses, the result with no fields and exactly one
\* warning; it never raises on an unparseable response.
C18_AnalyzerRetry ==
    /\ analysis.calls <= 2
    /\ analysis.pc = "done" =>
          LET rs == analysis.responses
              ok == {i \in 1..Len(rs) : Parseable(rs[i])}
          IN  /\ analysis.outcome = "returned"
              /\ IF ok # {}
                 THEN analysis.result = rs[CHOOSE i \in ok : \A j \in ok : i <= j].result
                 ELSE /\ Len(rs) = 2
                      /\ analysis.result.fields = <<>>
                      /\ Len(analysis.result.warnings) = 1

====
